---- MODULE Spec2Model ----
(***************************************************************************)
(* Three-tier envelope encryption of scripts/crypto_encrypt.py (the sealer)*)
(* and scripts/crypto_decrypt.py (the opener).                             *)
(*                                                                         *)
(* Bytes are integers 0..255 and byte strings are sequences of them.  Text *)
(* (str) is a sequence of code points.  A base64 text is a sequence of     *)
(* characters: 0..63 is the alphabet character of that sextet, Pad is "="  *)
(* and Junk is a character outside the alphabet.                           *)
(*                                                                         *)
(* os.urandom, hashlib.scrypt and the AEAD cipher are library primitives.  *)
(* They are modelled as ideal ones: urandom yields a value never seen      *)
(* before, scrypt is a collision-free function of its inputs, the AEAD is  *)
(* a random oracle kept as a table, and an AEAD open succeeds only on a    *)
(* (key, nonce, ciphertext) the AEAD sealed.                               *)
(***************************************************************************)
EXTENDS Integers, Sequences, FiniteSets, TLC

\* ------------------------------------------------------------------ bounds
\* how many times crypto_encrypt.py is run
MaxSeals == 2
\* how many times crypto_decrypt.py is run
MaxOpens == 2

\* ------------------------------------------------------- program constants
KeyLen == 32
SaltLen == 16
ScryptN == 16384
ScryptR == 8
ScryptP == 1
XNonceLen == 24
CNonceLen == 12
\* Poly1305 tag appended by encrypt() to every ciphertext
TagLen == 16

Pad == 64
Junk == 65
Newline == 10

\* ------------------------------------------------------------------ inputs
\* lines typed on stdin: empty (EOF), a bare newline, "h\n", "h" + e-acute
\* without a newline
Lines == {<<>>, <<Newline>>, <<104, 233, Newline>>}
\* passwords typed at the getpass prompt of the opener: "", "a", "b"
Passwords == {<<>>, <<97>>, <<98>>}
\* passwords typed at the getpass prompt of the sealer: "", "a" (sealing with
\* "b" is the same up to renaming the two passwords)
SealPasswords == {<<>>, <<97>>}
\* algorithm identifiers an edited demo.json may carry
AeadIds == {"xchacha20poly1305", "chacha20poly1305", "aes256gcm"}

\* --------------------------------------------------------------- text, bytes
\* str.rstrip("\n")
RECURSIVE RStripNewline(_)
RStripNewline(s) ==
    IF Len(s) > 0 /\ s[Len(s)] = Newline
    THEN RStripNewline(SubSeq(s, 1, Len(s) - 1))
    ELSE s

\* str.encode("utf-8"), code points below 2048
RECURSIVE Utf8Encode(_)
Utf8Encode(s) ==
    IF Len(s) = 0 THEN <<>>
    ELSE (IF s[1] < 128 THEN <<s[1]>>
          ELSE <<192 + (s[1] \div 64), 128 + (s[1] % 64)>>)
         \o Utf8Encode(Tail(s))

\* bytes.decode("utf-8"): ok is FALSE where Python raises UnicodeDecodeError
RECURSIVE Utf8Decode(_)
Utf8Decode(b) ==
    IF Len(b) = 0 THEN [ok |-> TRUE, text |-> <<>>]
    ELSE IF b[1] < 128
    THEN LET rest == Utf8Decode(Tail(b))
         IN  [ok |-> rest.ok, text |-> <<b[1]>> \o rest.text]
    ELSE IF b[1] >= 194 /\ b[1] <= 223 /\ Len(b) >= 2 /\ b[2] >= 128 /\ b[2] <= 191
    THEN LET rest == Utf8Decode(SubSeq(b, 3, Len(b)))
         IN  [ok |-> rest.ok,
              text |-> <<(b[1] - 192) * 64 + (b[2] - 128)>> \o rest.text]
    ELSE [ok |-> FALSE, text |-> <<>>]

\* b64(): base64.b64encode(data).decode("ascii")
RECURSIVE b64(_)
b64(data) ==
    IF Len(data) = 0 THEN <<>>
    ELSE IF Len(data) = 1
    THEN <<data[1] \div 4, (data[1] % 4) * 16, Pad, Pad>>
    ELSE IF Len(data) = 2
    THEN <<data[1] \div 4, (data[1] % 4) * 16 + (data[2] \div 16),
           (data[2] % 16) * 4, Pad>>
    ELSE <<data[1] \div 4, (data[1] % 4) * 16 + (data[2] \div 16),
           (data[2] % 16) * 4 + (data[3] \div 64), data[3] % 64>>
         \o b64(SubSeq(data, 4, Len(data)))

IsSextet(c) == c < Pad
IsPad(c) == c = Pad
NotJunk(c) == c # Junk

\* the bytes of a run of alphabet characters; a trailing group of two or three
\* characters gives one or two bytes and its unused low bits are dropped
RECURSIVE Sextets2Bytes(_)
Sextets2Bytes(q) ==
    IF Len(q) < 2 THEN <<>>
    ELSE IF Len(q) = 2 THEN <<q[1] * 4 + (q[2] \div 16)>>
    ELSE IF Len(q) = 3
    THEN <<q[1] * 4 + (q[2] \div 16), (q[2] % 16) * 16 + (q[3] \div 4)>>
    ELSE <<q[1] * 4 + (q[2] \div 16), (q[2] % 16) * 16 + (q[3] \div 4),
           (q[3] % 4) * 64 + q[4]>>
         \o Sextets2Bytes(SubSeq(q, 5, Len(q)))

\* b64d(): base64.b64decode(value.encode("ascii")).  The default is the
\* non-strict decoder: characters outside the alphabet are discarded, and
\* binascii.Error is raised only for a wrong number of characters or padding.
b64d(value) ==
    LET kept == SelectSeq(value, NotJunk)
        data == SelectSeq(kept, IsSextet)
        pads == Len(SelectSeq(kept, IsPad))
        r    == Len(data) % 4
        ok   == \/ r = 0
                \/ r = 2 /\ pads >= 2
                \/ r = 3 /\ pads >= 1
    IN  IF ok THEN [exc |-> "", bytes |-> Sextets2Bytes(data)]
        ELSE [exc |-> "binascii.Error", bytes |-> <<>>]

\* ---------------------------------------------------------------- primitives
\* os.urandom(n): n bytes of a value c no earlier call returned
Urandom(n, c) == [j \in 1..n |-> c]

\* the first n bytes of b, zero-filled
TakePad(b, n) == [j \in 1..n |-> IF j <= Len(b) THEN b[j] ELSE 0]

\* hashlib.scrypt(password, salt=, n=, r=, p=, dklen=): deterministic, and no
\* two inputs of the model share an output (a length-prefixed encoding of the
\* inputs stands for the hash)
Scrypt(password, salt, n, r, p, dklen) ==
    TakePad(<<Len(password)>> \o password
            \o <<(n \div 256) % 256, n % 256, r % 256, p % 256>> \o salt, dklen)

\* nonce length of each AEAD class of the cryptography package
NonceLenOf(alg) == IF alg = "xchacha20poly1305" THEN XNonceLen ELSE CNonceLen

\* cipher.encrypt(nonce, data, b""): the ciphertext and tag this
\* (algorithm, key, nonce, data) gave before, else TagLen more bytes than the
\* data, all new (value c)
CipherEncrypt(table, cipher, nonce, data, c) ==
    LET hit == {e \in table : /\ e.alg = cipher.alg /\ e.key = cipher.key
                              /\ e.nonce = nonce /\ e.data = data}
    IN  IF hit # {} THEN (CHOOSE e \in hit : TRUE).ct
        ELSE Urandom(Len(data) + TagLen, c)

\* the oracle table after that encrypt call
CipherRecord(table, cipher, nonce, data, c) ==
    table \cup {[alg |-> cipher.alg, key |-> cipher.key, nonce |-> nonce,
                 data |-> data,
                 ct |-> CipherEncrypt(table, cipher, nonce, data, c)]}

\* cipher.decrypt(nonce, ct, b""): ValueError for a nonce of the wrong length,
\* InvalidTag unless ct is what this key and nonce sealed
CipherDecrypt(table, cipher, nonce, ct) ==
    LET hit == {e \in table : /\ e.alg = cipher.alg /\ e.key = cipher.key
                              /\ e.nonce = nonce /\ e.ct = ct}
    IN  IF Len(nonce) # NonceLenOf(cipher.alg)
        THEN [exc |-> "ValueError", data |-> <<>>]
        ELSE IF hit = {} THEN [exc |-> "InvalidTag", data |-> <<>>]
        ELSE [exc |-> "", data |-> (CHOOSE e \in hit : TRUE).data]

\* ------------------------------------------------------------------- state
VARIABLES
    avail,      \* which AEAD classes the cryptography package provides
    demo_json,  \* the file demo.json: <<>> when absent, else <<document>>
    demo_jsonc, \* the file demo.jsonc, likewise
    fresh,      \* next value of the random source
    aeadTable,  \* every AEAD encryption made so far
    pc,         \* where the running script is; "idle" between runs
    enc,        \* locals of crypto_encrypt.main
    dec,        \* locals of crypto_decrypt.main
    out,        \* exit status, stderr lines, print() lines, stdout text
    ops,        \* history: the input, random, cryptographic and file calls
                \* of this run, in order
    sealed,     \* history: <<>> or <<what the last successful seal wrote>>
    encLog,     \* history: (key, nonce) of every encrypt call of every run,
                \* with the run and the password it was made for
    authObs,    \* history: what each authentication failure looked like
    runs        \* history: how many seals and opens so far, and whether
                \* demo.json was edited since it was written

vars == <<avail, demo_json, demo_jsonc, fresh, aeadTable, pc, enc, dec, out,
          ops, sealed, encLog, authObs, runs>>

files == <<demo_json, demo_jsonc>>
hist == <<sealed, encLog, authObs>>

EncBlank ==
    [plaintext |-> <<>>, master_password |-> <<>>, kdf_salt |-> <<>>,
     master_key |-> <<>>, vault_key |-> <<>>, nonce_vault |-> <<>>,
     vault_key_enc |-> <<>>, dek |-> <<>>, nonce_dekwrap |-> <<>>,
     enc_dek |-> <<>>, nonce_payload |-> <<>>, ciphertext |-> <<>>]

DecBlank ==
    [payload |-> <<>>, aead |-> "", vault_key_enc |-> <<>>, enc_dek |-> <<>>,
     nonce_payload |-> <<>>, ciphertext |-> <<>>, master_password |-> <<>>,
     master_key |-> <<>>, nonce_vault |-> <<>>, ct_vault |-> <<>>,
     vault_key |-> <<>>, nonce_dek |-> <<>>, ct_dek |-> <<>>, dek |-> <<>>,
     plaintext |-> <<>>]

OutBlank == [rc |-> -1, stderr |-> <<>>, printed |-> <<>>, stdout |-> <<>>]

Init ==
    /\ avail \in [x : BOOLEAN, c : BOOLEAN]
    /\ demo_json = <<>>
    /\ demo_jsonc = <<>>
    /\ fresh = 1
    /\ aeadTable = {}
    /\ pc = "idle"
    /\ enc = EncBlank
    /\ dec = DecBlank
    /\ out = OutBlank
    /\ ops = <<>>
    /\ sealed = <<>>
    /\ encLog = <<>>
    /\ authObs = {}
    /\ runs = [seals |-> 0, opens |-> 0, edited |-> FALSE]

EncLabels == {"e_plaintext", "e_password", "e_kdf", "e_vault", "e_dek",
              "e_payload", "e_write"}

\* return rc after writing msg to stderr
Return(rc, msg) ==
    /\ pc' = IF pc \in EncLabels THEN "e_done" ELSE "d_done"
    /\ out' = [out EXCEPT !.rc = rc, !.stderr = @ \o msg]

\* an exception nothing catches: the interpreter prints the traceback and
\* exits 1
Uncaught(exc) == Return(1, <<"Traceback: " \o exc>>)

\* ------------------------------------------------------- crypto_encrypt.py
\* the module-level import: the AEAD identifier and nonce length it settles on
EncAEAD == IF avail.x THEN "xchacha20poly1305" ELSE "chacha20poly1305"
EncNonceLen == IF avail.x THEN XNonceLen ELSE CNonceLen

\* a nonce that is the same bytes on every call
EncNonceStatic(c) == Urandom(EncNonceLen, 0)

\* os.urandom(NonceLen), c the value the random source yields
EncNonce(c) == Urandom(EncNonceLen, c)

\* aead_new(key) of crypto_encrypt.py
EncAeadNew(key) == [alg |-> EncAEAD, key |-> key]

\* python crypto_encrypt.py: the imports at the top of the script
EncImport ==
    /\ pc = "idle"
    /\ runs.seals < MaxSeals
    /\ runs' = [runs EXCEPT !.seals = @ + 1]
    /\ enc' = EncBlank
    /\ dec' = DecBlank
    /\ ops' = <<>>
    /\ IF avail.x
       THEN /\ pc' = "e_plaintext"
            /\ out' = OutBlank
       ELSE IF avail.c
       THEN /\ pc' = "e_plaintext"
            /\ out' = [OutBlank EXCEPT !.stderr =
                   <<"XChaCha20Poly1305 unavailable, falling back to ChaCha20Poly1305 for demo.",
                     "This changes nonce length but keeps the envelope flow identical.">>]
       ELSE /\ pc' = "e_done"
            /\ out' = [OutBlank EXCEPT !.rc = 1, !.stderr =
                   <<"missing dependency: python 'cryptography' (AEAD)",
                     "install: pip install cryptography",
                     "Traceback: ImportError">>]
    /\ UNCHANGED <<avail, files, fresh, aeadTable, hist>>

\* main, the plaintext prompt and its check
EncReadPlaintext ==
    /\ pc = "e_plaintext"
    /\ \E line \in Lines :
         LET plaintext == Utf8Encode(RStripNewline(line))
             shown == [out EXCEPT !.printed = @ \o <<"Enter plaintext to encrypt:">>]
         IN  /\ enc' = [enc EXCEPT !.plaintext = plaintext]
             /\ IF plaintext = <<>>
                THEN /\ pc' = "e_done"
                     /\ out' = [shown EXCEPT !.rc = 2,
                                  !.stderr = @ \o <<"plaintext cannot be empty">>]
                ELSE /\ pc' = "e_password"
                     /\ out' = shown
    /\ ops' = Append(ops, "readline")
    /\ UNCHANGED <<avail, files, fresh, aeadTable, dec, hist, runs>>

\* the password prompt without its check
EncPasswordNoCheck ==
    /\ pc = "e_password"
    /\ \E master_password \in SealPasswords :
         enc' = [enc EXCEPT !.master_password = master_password]
    /\ pc' = "e_kdf"
    /\ ops' = Append(ops, "getpass")
    /\ UNCHANGED <<avail, files, fresh, aeadTable, dec, out, hist, runs>>

\* main, the password prompt and its check
EncPassword ==
    /\ pc = "e_password"
    /\ \E master_password \in SealPasswords :
         /\ enc' = [enc EXCEPT !.master_password = master_password]
         /\ IF master_password = <<>>
            THEN Return(2, <<"master password cannot be empty">>)
            ELSE /\ pc' = "e_kdf"
                 /\ out' = out
    /\ ops' = Append(ops, "getpass")
    /\ UNCHANGED <<avail, files, fresh, aeadTable, dec, hist, runs>>

\* main, the salt and the master key
EncKdf ==
    /\ pc = "e_kdf"
    /\ LET kdf_salt == Urandom(SaltLen, fresh)
       IN  enc' = [enc EXCEPT
               !.kdf_salt = kdf_salt,
               !.master_key = Scrypt(Utf8Encode(enc.master_password), kdf_salt,
                                     ScryptN, ScryptR, ScryptP, KeyLen)]
    /\ fresh' = fresh + 1
    /\ ops' = ops \o <<"urandom", "scrypt">>
    /\ pc' = "e_vault"
    /\ UNCHANGED <<avail, files, aeadTable, dec, out, hist, runs>>

\* main, the vault key wrapped by the master key
EncWrapVault ==
    /\ pc = "e_vault"
    /\ LET vault_key == Urandom(KeyLen, fresh)
           nonce_vault == EncNonce(fresh + 1)
           cipher == EncAeadNew(enc.master_key)
       IN  /\ enc' = [enc EXCEPT
                  !.vault_key = vault_key,
                  !.nonce_vault = nonce_vault,
                  !.vault_key_enc =
                      CipherEncrypt(aeadTable, cipher, nonce_vault, vault_key, fresh + 2)]
           /\ aeadTable' = CipherRecord(aeadTable, cipher, nonce_vault, vault_key, fresh + 2)
           /\ encLog' = Append(encLog, [run |-> runs.seals, password |-> enc.master_password,
                                      key |-> cipher.key, nonce |-> nonce_vault])
    /\ fresh' = fresh + 3
    /\ ops' = ops \o <<"urandom", "urandom", "encrypt">>
    /\ pc' = "e_dek"
    /\ UNCHANGED <<avail, files, dec, out, sealed, authObs, runs>>

\* main, the DEK wrapped by the vault key
EncWrapDek ==
    /\ pc = "e_dek"
    /\ LET dek == Urandom(KeyLen, fresh)
           nonce_dekwrap == EncNonce(fresh + 1)
           wrap == EncAeadNew(enc.vault_key)
           ct_dekwrap == CipherEncrypt(aeadTable, wrap, nonce_dekwrap, dek, fresh + 2)
       IN  /\ enc' = [enc EXCEPT
                  !.dek = dek,
                  !.nonce_dekwrap = nonce_dekwrap,
                  !.enc_dek = nonce_dekwrap \o ct_dekwrap]
           /\ aeadTable' = CipherRecord(aeadTable, wrap, nonce_dekwrap, dek, fresh + 2)
           /\ encLog' = Append(encLog, [run |-> runs.seals, password |-> enc.master_password,
                                      key |-> wrap.key, nonce |-> nonce_dekwrap])
    /\ fresh' = fresh + 3
    /\ ops' = ops \o <<"urandom", "urandom", "encrypt">>
    /\ pc' = "e_payload"
    /\ UNCHANGED <<avail, files, dec, out, sealed, authObs, runs>>

\* main, the payload encrypted by the DEK
EncPayload ==
    /\ pc = "e_payload"
    /\ LET nonce_payload == EncNonce(fresh)
           payload_cipher == EncAeadNew(enc.dek)
       IN  /\ enc' = [enc EXCEPT
                  !.nonce_payload = nonce_payload,
                  !.ciphertext =
                      CipherEncrypt(aeadTable, payload_cipher, nonce_payload,
                                    enc.plaintext, fresh + 1)]
           /\ aeadTable' = CipherRecord(aeadTable, payload_cipher, nonce_payload,
                                        enc.plaintext, fresh + 1)
           /\ encLog' = Append(encLog, [run |-> runs.seals, password |-> enc.master_password,
                                      key |-> payload_cipher.key,
                                      nonce |-> nonce_payload])
    /\ fresh' = fresh + 2
    /\ ops' = ops \o <<"urandom", "encrypt">>
    /\ pc' = "e_write"
    /\ UNCHANGED <<avail, files, dec, out, sealed, authObs, runs>>

\* the dict with the vault-key blob written without its nonce
EncDocumentNoNonce ==
    [aead |-> EncAEAD,
     kdf |-> [type |-> "scrypt",
              salt_b64 |-> b64(enc.kdf_salt),
              params |-> [n |-> ScryptN, r |-> ScryptR, p |-> ScryptP,
                          dk_len |-> KeyLen]],
     vault_key_enc_b64 |-> b64(enc.vault_key_enc),
     enc_dek_b64 |-> b64(enc.enc_dek),
     nonce_payload_b64 |-> b64(enc.nonce_payload),
     ciphertext_b64 |-> b64(enc.ciphertext)]

\* the dict main serialises
EncDocument ==
    [aead |-> EncAEAD,
     kdf |-> [type |-> "scrypt",
              salt_b64 |-> b64(enc.kdf_salt),
              params |-> [n |-> ScryptN, r |-> ScryptR, p |-> ScryptP,
                          dk_len |-> KeyLen]],
     vault_key_enc_b64 |-> b64(enc.nonce_vault \o enc.vault_key_enc),
     enc_dek_b64 |-> b64(enc.enc_dek),
     nonce_payload_b64 |-> b64(enc.nonce_payload),
     ciphertext_b64 |-> b64(enc.ciphertext)]

\* main, writing demo.json and demo.jsonc
EncWrite ==
    /\ pc = "e_write"
    /\ demo_json' = <<EncDocument>>
    /\ demo_jsonc' = <<EncDocument>>
    /\ sealed' = <<[doc |-> EncDocument, enc |-> enc]>>
    /\ ops' = Append(ops, "write")
    /\ pc' = "e_done"
    /\ out' = [out EXCEPT !.rc = 0, !.printed = @ \o <<"Wrote demo.json and demo.jsonc">>]
    /\ runs' = [runs EXCEPT !.edited = FALSE]
    /\ UNCHANGED <<avail, fresh, aeadTable, enc, dec, encLog, authObs>>

\* raise SystemExit(main()): the process ends and its memory is gone
Exit ==
    /\ pc \in {"e_done", "d_done"}
    /\ pc' = "idle"
    /\ enc' = EncBlank
    /\ dec' = DecBlank
    /\ out' = OutBlank
    /\ ops' = <<>>
    /\ UNCHANGED <<avail, files, fresh, aeadTable, hist, runs>>

\* ------------------------------------------------- demo.json between runs
\* What crypto_decrypt.py reads is whatever demo.json holds: the document as
\* crypto_encrypt.py wrote it, or that document with one thing changed.
\* a dict without key k
DocRemove(d, k) == [x \in DOMAIN d \ {k} |-> d[x]]

\* the base64 fields of the document and where each lives
B64Fields ==
    {"vault_key_enc_b64", "enc_dek_b64", "nonce_payload_b64", "ciphertext_b64",
     "salt_b64"}

HasField(d, f) ==
    IF f = "salt_b64" THEN "kdf" \in DOMAIN d /\ f \in DOMAIN d.kdf
    ELSE f \in DOMAIN d

GetField(d, f) == IF f = "salt_b64" THEN d.kdf[f] ELSE d[f]

SetField(d, f, v) ==
    IF f = "salt_b64" THEN [d EXCEPT !.kdf = [@ EXCEPT !.salt_b64 = v]]
    ELSE [d EXCEPT ![f] = v]

\* one bit of a base64 character changed
FlipChar(c) == IF c % 2 = 0 THEN c + 1 ELSE c - 1

LastSextet(t) == CHOOSE i \in 1..Len(t) :
                    IsSextet(t[i]) /\ \A j \in (i + 1)..Len(t) : ~IsSextet(t[j])

\* the ways a base64 text is altered
B64Edits == {"truncate", "junk", "flip_first", "flip_last"}

EditText(t, how) ==
    CASE how = "truncate"   -> SubSeq(t, 1, Len(t) - 1)
      [] how = "junk"       -> <<Junk>> \o t
      [] how = "flip_first" -> [t EXCEPT ![1] = FlipChar(@)]
      [] how = "flip_last"  -> [t EXCEPT ![LastSextet(t)] = FlipChar(@)]

Editable ==
    /\ pc = "idle"
    /\ demo_json # <<>>
    /\ ~runs.edited

Edited(d) ==
    /\ demo_json' = <<d>>
    /\ runs' = [runs EXCEPT !.edited = TRUE]
    /\ UNCHANGED <<avail, demo_jsonc, fresh, aeadTable, pc, enc, dec, out, ops, hist>>

\* somebody deletes a key of demo.json
EditRemoveKey ==
    /\ Editable
    /\ LET d == demo_json[1]
       IN  \/ \E k \in DOMAIN d : Edited(DocRemove(d, k))
           \/ /\ "kdf" \in DOMAIN d
              /\ \E k \in DOMAIN d.kdf :
                   Edited([d EXCEPT !.kdf = DocRemove(@, k)])

\* somebody alters a base64 text of demo.json
EditBase64 ==
    /\ Editable
    /\ LET d == demo_json[1]
       IN  \E f \in B64Fields, how \in B64Edits :
             /\ HasField(d, f)
             /\ Len(GetField(d, f)) > 0
             /\ Edited(SetField(d, f, EditText(GetField(d, f), how)))

\* somebody names another algorithm in demo.json
EditAead ==
    /\ Editable
    /\ LET d == demo_json[1]
       IN  /\ "aead" \in DOMAIN d
           /\ \E id \in AeadIds \ {d.aead} : Edited([d EXCEPT !.aead = id])

\* ------------------------------------------------------- crypto_decrypt.py
\* b[:n] and b[n:]
Prefix(b, n) == SubSeq(b, 1, IF n < Len(b) THEN n ELSE Len(b))
Suffix(b, n) == SubSeq(b, n + 1, Len(b))

\* aead_new with one nonce length for both algorithms
DecAeadNewFixedLen(aead, key) ==
    IF aead = "xchacha20poly1305"
    THEN IF ~avail.x THEN [exc |-> "RuntimeError: not available", cipher |-> <<>>, nonce_len |-> 0]
         ELSE IF Len(key) # KeyLen
         THEN [exc |-> "ValueError", cipher |-> <<>>, nonce_len |-> 0]
         ELSE [exc |-> "", cipher |-> [alg |-> aead, key |-> key],
               nonce_len |-> XNonceLen]
    ELSE IF aead = "chacha20poly1305"
    THEN IF ~avail.c THEN [exc |-> "RuntimeError: not available", cipher |-> <<>>, nonce_len |-> 0]
         ELSE IF Len(key) # KeyLen
         THEN [exc |-> "ValueError", cipher |-> <<>>, nonce_len |-> 0]
         ELSE [exc |-> "", cipher |-> [alg |-> aead, key |-> key],
               nonce_len |-> XNonceLen]
    ELSE [exc |-> "RuntimeError: unsupported AEAD", cipher |-> <<>>, nonce_len |-> 0]

\* aead_new(aead, key) of crypto_decrypt.py: the cipher object and the nonce
\* length, or the exception raised (the AEAD classes take 32-byte keys only)
DecAeadNew(aead, key) ==
    IF aead = "xchacha20poly1305"
    THEN IF ~avail.x THEN [exc |-> "RuntimeError: not available", cipher |-> <<>>, nonce_len |-> 0]
         ELSE IF Len(key) # KeyLen
         THEN [exc |-> "ValueError", cipher |-> <<>>, nonce_len |-> 0]
         ELSE [exc |-> "", cipher |-> [alg |-> aead, key |-> key],
               nonce_len |-> XNonceLen]
    ELSE IF aead = "chacha20poly1305"
    THEN IF ~avail.c THEN [exc |-> "RuntimeError: not available", cipher |-> <<>>, nonce_len |-> 0]
         ELSE IF Len(key) # KeyLen
         THEN [exc |-> "ValueError", cipher |-> <<>>, nonce_len |-> 0]
         ELSE [exc |-> "", cipher |-> [alg |-> aead, key |-> key],
               nonce_len |-> CNonceLen]
    ELSE [exc |-> "RuntimeError: unsupported AEAD", cipher |-> <<>>, nonce_len |-> 0]

\* b64d(payload[f]): KeyError for an absent key, else what b64d does
DecField(payload, f) ==
    IF f \notin DOMAIN payload THEN [exc |-> "KeyError", bytes |-> <<>>]
    ELSE b64d(payload[f])

\* the first exception of a sequence of evaluations, "" when none raises
RECURSIVE FirstExc(_)
FirstExc(rs) ==
    IF Len(rs) = 0 THEN ""
    ELSE IF rs[1].exc # "" THEN rs[1].exc
    ELSE FirstExc(Tail(rs))

\* python crypto_decrypt.py: main opens and parses demo.json
DecLoad ==
    /\ pc = "idle"
    /\ runs.opens < MaxOpens
    /\ runs' = [runs EXCEPT !.opens = @ + 1]
    /\ enc' = EncBlank
    /\ ops' = <<>>
    /\ IF demo_json = <<>>
       THEN /\ pc' = "d_done"
            /\ out' = [OutBlank EXCEPT !.rc = 2, !.stderr = <<"demo.json not found">>]
            /\ dec' = DecBlank
       ELSE /\ pc' = "d_fields"
            /\ out' = OutBlank
            /\ dec' = [DecBlank EXCEPT !.payload = demo_json]
    /\ UNCHANGED <<avail, files, fresh, aeadTable, hist>>

\* main, reading the algorithm and decoding the four top-level fields
DecFields ==
    /\ pc = "d_fields"
    /\ LET payload == dec.payload[1]
           vault_key_enc == DecField(payload, "vault_key_enc_b64")
           enc_dek == DecField(payload, "enc_dek_b64")
           nonce_payload == DecField(payload, "nonce_payload_b64")
           ciphertext == DecField(payload, "ciphertext_b64")
           exc == IF "aead" \notin DOMAIN payload THEN "KeyError"
                  ELSE FirstExc(<<vault_key_enc, enc_dek, nonce_payload, ciphertext>>)
       IN  IF exc # ""
           THEN /\ Uncaught(exc)
                /\ dec' = dec
           ELSE /\ dec' = [dec EXCEPT
                       !.aead = payload.aead,
                       !.vault_key_enc = vault_key_enc.bytes,
                       !.enc_dek = enc_dek.bytes,
                       !.nonce_payload = nonce_payload.bytes,
                       !.ciphertext = ciphertext.bytes]
                /\ pc' = "d_password"
                /\ out' = out
    /\ UNCHANGED <<avail, files, fresh, aeadTable, enc, ops, hist, runs>>

\* main, the password prompt and its check
DecPassword ==
    /\ pc = "d_password"
    /\ \E master_password \in Passwords :
         /\ dec' = [dec EXCEPT !.master_password = master_password]
         /\ IF master_password = <<>>
            THEN Return(2, <<"master password cannot be empty">>)
            ELSE /\ pc' = "d_kdf"
                 /\ out' = out
    /\ ops' = Append(ops, "getpass")
    /\ UNCHANGED <<avail, files, fresh, aeadTable, enc, hist, runs>>

\* main, reading the kdf section and deriving the master key
DecKdf ==
    /\ pc = "d_kdf"
    /\ LET payload == dec.payload[1]
           kdf == payload.kdf
           params == kdf.params
           kdf_salt == DecField(kdf, "salt_b64")
           exc == IF "kdf" \notin DOMAIN payload THEN "KeyError"
                  ELSE IF "params" \notin DOMAIN kdf THEN "KeyError"
                  ELSE IF kdf_salt.exc # "" THEN kdf_salt.exc
                  ELSE IF {"n", "r", "p", "dk_len"} \subseteq DOMAIN params THEN ""
                  ELSE "KeyError"
       IN  IF exc # ""
           THEN /\ Uncaught(exc)
                /\ UNCHANGED <<dec, ops>>
           ELSE /\ dec' = [dec EXCEPT !.master_key =
                       Scrypt(Utf8Encode(dec.master_password), kdf_salt.bytes,
                              params.n, params.r, params.p, params.dk_len)]
                /\ ops' = Append(ops, "scrypt")
                /\ pc' = "d_vault"
                /\ out' = out
    /\ UNCHANGED <<avail, files, fresh, aeadTable, enc, hist, runs>>

\* the vault-key decrypt without its try: the exception escapes
VaultFailedUncaught(exc, d) ==
    /\ Uncaught(exc)
    /\ dec' = d

\* what main does when the vault-key decrypt raises: the except clause
VaultFailed(exc, d) ==
    /\ Return(3, <<"decrypt failed (wrong master password?)">>)
    /\ dec' = d

\* a DEK decrypt whose failure is swallowed and an all-zero key used instead
DekFailedZeroKey(exc, d) ==
    /\ pc' = "d_payload"
    /\ out' = out
    /\ dec' = [d EXCEPT !.dek = [j \in 1..KeyLen |-> 0]]

\* what main does when the DEK decrypt raises: nothing catches it
DekFailed(exc, d) ==
    /\ Uncaught(exc)
    /\ dec' = d

\* what main does when the payload decrypt raises: nothing catches it
PayloadFailed(exc, d) ==
    /\ Uncaught(exc)
    /\ dec' = d

\* main, unwrapping the vault key; the only decrypt call inside a try
DecUnwrapVault ==
    /\ pc = "d_vault"
    /\ LET made == DecAeadNew(dec.aead, dec.master_key)
           nonce_vault == Prefix(dec.vault_key_enc, made.nonce_len)
           ct_vault == Suffix(dec.vault_key_enc, made.nonce_len)
           opened == CipherDecrypt(aeadTable, made.cipher, nonce_vault, ct_vault)
           split == [dec EXCEPT !.nonce_vault = nonce_vault, !.ct_vault = ct_vault]
       IN  IF made.exc # ""
           THEN /\ Uncaught(made.exc)
                /\ UNCHANGED <<dec, ops, authObs>>
           ELSE IF opened.exc # ""
           THEN /\ VaultFailed(opened.exc, split)
                /\ ops' = Append(ops, "vault:fail")
                /\ authObs' = authObs \cup
                       {[layer |-> "vault", rc |-> out'.rc, stderr |-> out'.stderr]}
           ELSE /\ dec' = [split EXCEPT !.vault_key = opened.data]
                /\ ops' = Append(ops, "vault:ok")
                /\ pc' = "d_dek"
                /\ UNCHANGED <<out, authObs>>
    /\ UNCHANGED <<avail, files, fresh, aeadTable, enc, sealed, encLog, runs>>

\* main, unwrapping the DEK
DecUnwrapDek ==
    /\ pc = "d_dek"
    /\ LET made == DecAeadNew(dec.aead, dec.vault_key)
           nonce_dek == Prefix(dec.enc_dek, made.nonce_len)
           ct_dek == Suffix(dec.enc_dek, made.nonce_len)
           opened == CipherDecrypt(aeadTable, made.cipher, nonce_dek, ct_dek)
           split == [dec EXCEPT !.nonce_dek = nonce_dek, !.ct_dek = ct_dek]
       IN  IF made.exc # ""
           THEN /\ Uncaught(made.exc)
                /\ UNCHANGED <<dec, ops, authObs>>
           ELSE IF opened.exc # ""
           THEN /\ DekFailed(opened.exc, split)
                /\ ops' = Append(ops, "dek:fail")
                /\ authObs' = authObs \cup
                       {[layer |-> "dek", rc |-> out'.rc, stderr |-> out'.stderr]}
           ELSE /\ dec' = [split EXCEPT !.dek = opened.data]
                /\ ops' = Append(ops, "dek:ok")
                /\ pc' = "d_payload"
                /\ UNCHANGED <<out, authObs>>
    /\ UNCHANGED <<avail, files, fresh, aeadTable, enc, sealed, encLog, runs>>

\* main, decrypting the payload
DecPayload ==
    /\ pc = "d_payload"
    /\ LET made == DecAeadNew(dec.aead, dec.dek)
           opened == CipherDecrypt(aeadTable, made.cipher, dec.nonce_payload,
                                   dec.ciphertext)
       IN  IF made.exc # ""
           THEN /\ Uncaught(made.exc)
                /\ UNCHANGED <<dec, ops, authObs>>
           ELSE IF opened.exc # ""
           THEN /\ PayloadFailed(opened.exc, dec)
                /\ ops' = Append(ops, "payload:fail")
                /\ authObs' = authObs \cup
                       {[layer |-> "payload", rc |-> out'.rc, stderr |-> out'.stderr]}
           ELSE /\ dec' = [dec EXCEPT !.plaintext = opened.data]
                /\ ops' = Append(ops, "payload:ok")
                /\ pc' = "d_emit"
                /\ UNCHANGED <<out, authObs>>
    /\ UNCHANGED <<avail, files, fresh, aeadTable, enc, sealed, encLog, runs>>

\* main, writing the plaintext to stdout
DecEmit ==
    /\ pc = "d_emit"
    /\ LET decoded == Utf8Decode(dec.plaintext)
       IN  IF ~decoded.ok
           THEN Uncaught("UnicodeDecodeError")
           ELSE /\ pc' = "d_done"
                /\ out' = [out EXCEPT !.rc = 0,
                             !.stdout = @ \o decoded.text \o <<Newline>>]
    /\ ops' = ops
    /\ UNCHANGED <<avail, files, fresh, aeadTable, enc, dec, hist, runs>>

Next ==
    \/ EncImport
    \/ EncReadPlaintext
    \/ EncPassword
    \/ EncKdf
    \/ EncWrapVault
    \/ EncWrapDek
    \/ EncPayload
    \/ EncWrite
    \/ EditRemoveKey
    \/ EditBase64
    \/ EditAead
    \/ DecLoad
    \/ DecFields
    \/ DecPassword
    \/ DecKdf
    \/ DecUnwrapVault
    \/ DecUnwrapDek
    \/ DecPayload
    \/ DecEmit
    \/ Exit

Spec == Init /\ [][Next]_vars

\* ------------------------------------------------------------ properties
\* the outcome a finished run shows, in the terms of the error taxonomy
LastErr(o) == IF o.stderr = <<>> THEN "" ELSE o.stderr[Len(o.stderr)]

Kind(o) ==
    IF o.rc = 0 THEN "Ok"
    ELSE IF o.rc = 2 /\ LastErr(o) = "plaintext cannot be empty" THEN "EmptyPayload"
    ELSE IF o.rc = 2 /\ LastErr(o) = "master password cannot be empty"
    THEN "EmptyCredential"
    ELSE IF o.rc = 3 /\ LastErr(o) = "decrypt failed (wrong master password?)"
    THEN "DecryptionFailed"
    ELSE IF o.rc = 1 /\ LastErr(o) \in {"Traceback: KeyError",
                                       "Traceback: binascii.Error",
                                       "Traceback: RuntimeError: unsupported AEAD"}
    THEN "MalformedEnvelope"
    ELSE "Other"

KnownAeads == {"xchacha20poly1305", "chacha20poly1305"}

\* a base64 text that is not canonical: a foreign character or a length that
\* is no multiple of four
MalformedB64(t) == (\E i \in 1..Len(t) : t[i] = Junk) \/ Len(t) % 4 # 0

\* a field the opener needs is absent (kdf.type is written but never read,
\* and is not counted)
MissingField(d) ==
    \/ ~({"aead", "kdf", "vault_key_enc_b64", "enc_dek_b64", "nonce_payload_b64",
          "ciphertext_b64"} \subseteq DOMAIN d)
    \/ "kdf" \in DOMAIN d /\ ~({"salt_b64", "params"} \subseteq DOMAIN d.kdf)

UnknownAead(d) == "aead" \in DOMAIN d /\ d.aead \notin KnownAeads

StructuralDefect(d) ==
    \/ MissingField(d)
    \/ UnknownAead(d)
    \/ \E f \in B64Fields : HasField(d, f) /\ MalformedB64(GetField(d, f))

\* the opener finished a run on a document it loaded
Opened == pc = "d_done" /\ dec.payload # <<>>

\* ... and the document is the one the last seal wrote, untouched
OpenedSealed == Opened /\ sealed # <<>> /\ dec.payload[1] = sealed[1].doc

\* the AEAD opens of this run, in order
IsLayerOp(x) == x \in {"vault:ok", "vault:fail", "dek:ok", "dek:fail",
                       "payload:ok", "payload:fail"}
LayerOps == SelectSeq(ops, IsLayerOp)

\* C1: opening the envelope a seal wrote, untouched, with the password it was
\* sealed with exits 0, recovers exactly the sealed payload bytes and prints
\* them as text followed by a newline, under either AEAD variant.
C1_RoundTrip ==
    (OpenedSealed /\ dec.master_password = sealed[1].enc.master_password)
    => /\ Kind(out) = "Ok"
       /\ dec.plaintext = sealed[1].enc.plaintext
       /\ Len(out.stdout) > 0
       /\ Utf8Encode(SubSeq(out.stdout, 1, Len(out.stdout) - 1)) = sealed[1].enc.plaintext
       /\ out.stdout[Len(out.stdout)] = Newline

C1_Witness ==
    /\ OpenedSealed
    /\ dec.master_password = sealed[1].enc.master_password
    /\ out.rc = 0
    /\ out.stdout = <<104, 233, Newline>>

\* C2: opening an untouched sealed envelope with another non-empty password
\* ends in the "decrypt failed" outcome (exit status 3) with nothing written
\* to stdout and no plaintext recovered.
C2_WrongPasswordFailsClosed ==
    (OpenedSealed /\ dec.master_password \notin {<<>>, sealed[1].enc.master_password})
    => /\ Kind(out) = "DecryptionFailed"
       /\ out.stdout = <<>>
       /\ dec.plaintext = <<>>

C2_Witness ==
    /\ OpenedSealed
    /\ dec.master_password \notin {<<>>, sealed[1].enc.master_password}
    /\ out.rc = 3
    /\ LayerOps = <<"vault:fail">>

\* the document differs from the sealed one in field f alone, and the bytes
\* that field decodes to differ
AlteredOnly(d, s, f) ==
    /\ DOMAIN d = DOMAIN s
    /\ \A g \in DOMAIN s \ {f} : d[g] = s[g]
    /\ b64d(d[f]).exc = ""
    /\ b64d(d[f]).bytes # b64d(s[f]).bytes

\* C3: when one of vault_key_enc_b64, enc_dek_b64, ciphertext_b64 of a sealed
\* envelope is altered, opening with the right password ends in the same
\* "decrypt failed" outcome whichever field it was.
C3_TamperDetected ==
    (/\ Opened
     /\ sealed # <<>>
     /\ dec.master_password = sealed[1].enc.master_password
     /\ \E f \in {"vault_key_enc_b64", "enc_dek_b64", "ciphertext_b64"} :
          AlteredOnly(dec.payload[1], sealed[1].doc, f))
    => Kind(out) = "DecryptionFailed"

\* C4: an open of a structurally defective document (malformed base64, a
\* missing field, an unknown algorithm) ends as a malformed envelope, and has
\* run neither the KDF nor any AEAD open.  (The empty-password ending of such
\* an open is the subject of C10 and is left out here.)
C4_StructuralRejectionBeforeCrypto ==
    (Opened /\ StructuralDefect(dec.payload[1]) /\ Kind(out) # "EmptyCredential")
    => /\ Kind(out) = "MalformedEnvelope"
       /\ "scrypt" \notin {ops[i] : i \in DOMAIN ops}
       /\ LayerOps = <<>>

\* C5: a seal that read an empty payload ends as EmptyPayload, a seal or an
\* open that read an empty password ends as EmptyCredential, and in each
\* case the run made no random, KDF, AEAD or file-writing call and wrote
\* nothing to stdout.
C5_EmptyInputRejected ==
    /\ (pc = "e_done" /\ "readline" \in {ops[i] : i \in DOMAIN ops}
                      /\ enc.plaintext = <<>>)
       => (Kind(out) = "EmptyPayload" /\ ops = <<"readline">>)
    /\ (pc = "e_done" /\ "getpass" \in {ops[i] : i \in DOMAIN ops}
                      /\ enc.master_password = <<>>)
       => (Kind(out) = "EmptyCredential" /\ ops = <<"readline", "getpass">>)
    /\ (pc = "d_done" /\ "getpass" \in {ops[i] : i \in DOMAIN ops}
                      /\ dec.master_password = <<>>)
       => (Kind(out) = "EmptyCredential" /\ ops = <<"getpass">>
           /\ out.stdout = <<>>)

C5_Witness ==
    /\ pc = "e_done"
    /\ enc.plaintext # <<>>
    /\ enc.master_password = <<>>
    /\ out.rc = 2
    /\ ops = <<"readline", "getpass">>

\* C6: every authentication failure of an open looks the same to the caller
\* (exit status and stderr), whichever layer it happened at.
C6_FailingLayerNotObservable ==
    \A a, b \in authObs : a.rc = b.rc /\ a.stderr = b.stderr

\* C7: over all seals, no two encrypt calls share a key and no two share a
\* nonce, so no (key, nonce) pair is used twice, within an envelope or across
\* envelopes.
C7_NonceKeySingleUse ==
    \A i, j \in DOMAIN encLog :
        i # j => /\ encLog[i].key # encLog[j].key
                 /\ encLog[i].nonce # encLog[j].nonce

C7_Witness ==
    /\ Len(encLog) = 6
    /\ encLog[1].run # encLog[6].run
    /\ encLog[1].password = encLog[6].password

\* C8: the AEAD opens of a run are attempted in the order vault key, DEK,
\* payload, each only after the earlier ones succeeded and none after a
\* failure, and stdout receives text only when all three succeeded.
C8_LinearPipeline ==
    /\ LayerOps \in {<<>>, <<"vault:fail">>, <<"vault:ok">>,
                     <<"vault:ok", "dek:fail">>, <<"vault:ok", "dek:ok">>,
                     <<"vault:ok", "dek:ok", "payload:fail">>,
                     <<"vault:ok", "dek:ok", "payload:ok">>}
    /\ out.stdout # <<>> => LayerOps = <<"vault:ok", "dek:ok", "payload:ok">>
    /\ (pc = "d_done" /\ LayerOps # <<"vault:ok", "dek:ok", "payload:ok">>)
       => (out.stdout = <<>> /\ out.rc # 0)

C8_Witness ==
    /\ pc = "d_done"
    /\ LayerOps = <<"vault:ok", "dek:fail">>
    /\ out.stdout = <<>>

\* nonce length of an algorithm identifier
DeclaredNonceLen(id) == IF id = "xchacha20poly1305" THEN 24 ELSE 12

Attempted(layer) ==
    \E i \in DOMAIN ops : ops[i] \in {layer \o ":ok", layer \o ":fail"}

\* C9: a sealed envelope names the variant all three layers were sealed with
\* and its nonces have that variant's length; an open splits each wrapped-key
\* blob at the length of the document's identifier, and on a sealed envelope
\* gets back exactly the nonce and the ciphertext the seal concatenated.
C9_VariantConsistentSplit ==
    /\ sealed # <<>> =>
         LET s == sealed[1]
             n == DeclaredNonceLen(s.doc.aead)
         IN  /\ s.doc.aead \in KnownAeads
             /\ Len(s.enc.nonce_vault) = n
             /\ Len(s.enc.nonce_dekwrap) = n
             /\ Len(s.enc.nonce_payload) = n
             /\ \E e \in aeadTable : /\ e.alg = s.doc.aead
                                     /\ e.key = s.enc.master_key
                                     /\ e.nonce = s.enc.nonce_vault
                                     /\ e.ct = s.enc.vault_key_enc
             /\ \E e \in aeadTable : /\ e.alg = s.doc.aead
                                     /\ e.key = s.enc.vault_key
                                     /\ s.enc.enc_dek = e.nonce \o e.ct
             /\ \E e \in aeadTable : /\ e.alg = s.doc.aead
                                     /\ e.key = s.enc.dek
                                     /\ e.nonce = s.enc.nonce_payload
                                     /\ e.ct = s.enc.ciphertext
    /\ Attempted("vault") =>
         /\ Len(dec.nonce_vault) <= DeclaredNonceLen(dec.aead)
         /\ dec.nonce_vault \o dec.ct_vault = dec.vault_key_enc
         /\ dec.ct_vault # <<>> => Len(dec.nonce_vault) = DeclaredNonceLen(dec.aead)
    /\ Attempted("dek") =>
         /\ Len(dec.nonce_dek) <= DeclaredNonceLen(dec.aead)
         /\ dec.nonce_dek \o dec.ct_dek = dec.enc_dek
         /\ dec.ct_dek # <<>> => Len(dec.nonce_dek) = DeclaredNonceLen(dec.aead)
    /\ (sealed # <<>> /\ dec.payload = <<sealed[1].doc>> /\ Attempted("vault")) =>
         /\ dec.nonce_vault = sealed[1].enc.nonce_vault
         /\ dec.ct_vault = sealed[1].enc.vault_key_enc
    /\ (sealed # <<>> /\ dec.payload = <<sealed[1].doc>> /\ Attempted("dek")) =>
         /\ dec.nonce_dek = sealed[1].enc.nonce_dekwrap
         /\ dec.nonce_dek \o dec.ct_dek = sealed[1].enc.enc_dek

C9_Witness ==
    /\ OpenedSealed
    /\ out.rc = 0
    /\ dec.aead = "chacha20poly1305"
    /\ Len(dec.nonce_vault) = 12
    /\ Len(dec.nonce_dek) = 12
    /\ dec.nonce_dek = sealed[1].enc.nonce_dekwrap

\* C10: an open of a structurally defective document ends as a malformed
\* envelope whatever password is typed, the empty one included.
C10_StructureBeforePassword ==
    (Opened /\ StructuralDefect(dec.payload[1])) => Kind(out) = "MalformedEnvelope"

====
